---- MODULE Spec2Model ----
(***************************************************************************)
(* State-machine model of the FileUpload component                         *)
(* (src/project2/src/types/index.ts): the React state cells file,          *)
(* uploading, result and error, and the handlers handleFileSelect,         *)
(* handleUpload, handleDownload, handleReset and the mount-time health     *)
(* probe.  Every async handler is cut at its awaits: one action runs the   *)
(* handler from one suspension point to the next.  A fetch and the         *)
(* response.json()/blob() that follows it are one suspension, because the  *)
(* code between them touches no component state.                           *)
(*                                                                         *)
(* A nullable cell is a sequence of length at most one: <<>> is null and   *)
(* <<v>> holds v.  Strings are TLA+ strings, so endsWith and the template  *)
(* literals are computed on the characters.                                *)
(***************************************************************************)
EXTENDS Integers, Sequences, FiniteSets, TLC

VARIABLES file, uploading, result, error, ups, downs, mount, calls, dom, last

vars == <<file, uploading, result, error, ups, downs, mount, calls, dom, last>>

\* ------------------------------------------------------------------ bounds
\* handleUpload invocations that reach the health probe, per run
MaxUploads == 2
\* handleDownload invocations that reach the fetch, per run
MaxDownloads == 1
\* handleUpload invocations per run in the specification with fairness
MaxLiveUploads == 1

\* --------------------------------------------------------------- constants
API_BASE_URL == "https://project2backenddeploy-production.up.railway.app"

Null == <<>>
Some(v) == <<v>>

MsgInvalidFile == "Please select a valid .xlsx file"
MsgNoFile == "Please select a file first"
MsgNoBackend ==
    "Cannot connect to backend server. Make sure Flask is running on " \o API_BASE_URL
MsgUploadGeneric == "An error occurred while uploading the file"
MsgDownloadFailed == "Failed to download file"

\* ------------------------------------------------------------ string helpers
\* String.prototype.includes in place of endsWith
EndsWith_Includes(s, suffix) ==
    \E k \in 1..Len(s) :
        /\ k + Len(suffix) - 1 <= Len(s)
        /\ SubSeq(s, k, k + Len(suffix) - 1) = suffix

\* String.prototype.endsWith
EndsWith(s, suffix) ==
    /\ Len(s) >= Len(suffix)
    /\ SubSeq(s, Len(s) - Len(suffix) + 1, Len(s)) = suffix

\* Number -> decimal string, as a template literal renders response.status
RECURSIVE NumToString(_)
NumToString(n) ==
    IF n < 10 THEN SubSeq("0123456789", n + 1, n + 1)
    ELSE NumToString(n \div 10) \o SubSeq("0123456789", (n % 10) + 1, (n % 10) + 1)

\* JavaScript truthiness of an optional string field of a parsed payload
Truthy(data, f) == f \in DOMAIN data /\ data[f] # ""

\* ------------------------------------------------------------------ inputs
\* File objects offered to handleFileSelect by the picker or a drop
Candidates ==
    { [name |-> n] : n \in {"a.xlsx", "b.xlsx", "a.csv", "a.xlsx.bak", "A.XLSX"} }

\* What the health request can come back with
HealthOutcomes ==
    { [kind |-> "json", status |-> "healthy"],
      [kind |-> "json", status |-> "degraded"],
      [kind |-> "badjson", status |-> ""],
      [kind |-> "reject", status |-> ""] }

\* Parsed success payloads of POST /api/upload (HTTP 200)
SuccessPayloads ==
    { [success |-> TRUE, message |-> "ok",
       stats |-> [total_records |-> 5, filename |-> "out.csv"],
       download_url |-> u] : u \in {"/files/out.csv", ""} }

\* Parsed failure payloads of POST /api/upload
FailurePayloads ==
    { [error |-> "bad format"],
      [message |-> "try again"],
      [error |-> "bad format", message |-> "try again"],
      [error |-> "", message |-> "try again"],
      [success |-> FALSE] }

NoData == [success |-> FALSE]

\* What the upload request can come back with: the fetch rejects, or an HTTP
\* response arrives whose body parses as JSON or does not
UploadResponses ==
    { [kind |-> "reject", ok |-> FALSE, status |-> 0, parseable |-> FALSE,
       data |-> NoData, message |-> "Failed to fetch"] }
    \cup
    { [kind |-> "http", ok |-> TRUE, status |-> 200, parseable |-> TRUE,
       data |-> d, message |-> ""] : d \in SuccessPayloads }
    \cup
    { [kind |-> "http", ok |-> FALSE, status |-> 400, parseable |-> TRUE,
       data |-> d, message |-> ""] : d \in FailurePayloads }
    \cup
    { [kind |-> "http", ok |-> FALSE, status |-> s, parseable |-> FALSE,
       data |-> NoData, message |-> "Unexpected end of JSON input"] : s \in {500} }

\* How the try block of handleDownload can go once its fetch is answered:
\* the fetch rejects, the response is not ok, response.blob() rejects, a call
\* made after the object URL exists throws (appendChild, click), or all succeed
DownloadOutcomes == {"reject", "notok", "blobfail", "throwAtAppend", "throwAtClick", "ok"}

\* ---------------------------------------------------------------- Init
Init ==
    /\ file = Null
    /\ uploading = FALSE
    /\ result = Null
    /\ error = Null
    /\ ups = <<>>
    /\ downs = <<>>
    /\ mount = "probe"
    /\ calls = [health |-> 1, upload |-> 0, download |-> 0]
    /\ dom = [urls |-> 0, anchors |-> 0]
    /\ last = [op |-> "mount", id |-> 0, arg |-> Null,
               pre |-> [file |-> Null, uploading |-> FALSE, result |-> Null,
                        error |-> Null, calls |-> [health |-> 0, upload |-> 0, download |-> 0]]]

\* History of the latest handler step: which step ran, for which invocation,
\* on which input, and the component state it started from
Ev(op, id, arg) ==
    [op |-> op, id |-> id, arg |-> arg,
     pre |-> [file |-> file, uploading |-> uploading, result |-> result,
              error |-> error, calls |-> calls]]

\* ------------------------------------------------- pure parts of the handlers
\* Any parsed health body taken as healthy
testBackendConnection_AnyJson(h) == h.kind = "json"

\* testBackendConnection: true only for a parsed body whose status is "healthy";
\* a rejected fetch or an unparseable body is caught and gives false
testBackendConnection(h) ==
    IF h.kind = "json" THEN h.status = "healthy" ELSE FALSE

\* data.error || data.message || `Upload failed with status ${response.status}`
UploadErrorMessage(data, status) ==
    IF Truthy(data, "error") THEN data.error
    ELSE IF Truthy(data, "message") THEN data.message
    ELSE "Upload failed with status " \o NumToString(status)

\* The download locator stored as returned
QualifyResult_Unqualified(data) == data

\* if (processedResult.download_url) download_url = `${API_BASE_URL}${download_url}`
QualifyResult(data) ==
    IF data.download_url # ""
    THEN [data EXCEPT !.download_url = API_BASE_URL \o data.download_url]
    ELSE data

Thrown(isErr, msg) == [threw |-> TRUE, isError |-> isErr, message |-> msg, value |-> NoData]
Returned(v) == [threw |-> FALSE, isError |-> FALSE, message |-> "", value |-> v]

\* The try block of handleUpload on one response: await fetch, await
\* response.json(), the !response.ok throw, the qualification
UploadTry(resp) ==
    IF resp.kind = "reject" THEN Thrown(TRUE, resp.message)
    ELSE IF ~resp.parseable THEN Thrown(TRUE, resp.message)
    ELSE IF ~resp.ok THEN Thrown(TRUE, UploadErrorMessage(resp.data, resp.status))
    ELSE Returned(QualifyResult(resp.data))

\* err instanceof Error ? err.message : 'An error occurred while uploading the file'
CatchMessage(out) == IF out.isError THEN out.message ELSE MsgUploadGeneric

\* --------------------------------------------------------- state updates
\* setResult(null) left out
AcceptFile_KeepsResult(c) ==
    /\ file' = Some(c)
    /\ error' = Null
    /\ UNCHANGED result

\* setFile(selectedFile); setError(null); setResult(null)
AcceptFile(c) ==
    /\ file' = Some(c)
    /\ error' = Null
    /\ result' = Null

\* setError('Please select a valid .xlsx file')
RejectFile(c) ==
    /\ error' = Some(MsgInvalidFile)
    /\ UNCHANGED <<file, result>>

\* The return left out: the health probe is issued without a file
UploadNoFile_FallsThrough ==
    /\ error' = Some(MsgNoFile)
    /\ ups' = Append(ups, [pc |-> "probe", file |-> file,
                            probe |-> "pending", uploaded |-> FALSE])
    /\ calls' = [calls EXCEPT !.health = @ + 1]
    /\ UNCHANGED <<file, uploading, result>>

\* if (!file) { setError('Please select a file first'); return; }
UploadNoFile ==
    /\ error' = Some(MsgNoFile)
    /\ UNCHANGED <<file, uploading, result, ups, calls>>

\* An unhealthy probe answered by probing again
UploadUnhealthy_Retries(i) ==
    /\ error' = Some(MsgNoBackend)
    /\ calls' = [calls EXCEPT !.health = @ + 1]
    /\ UNCHANGED <<uploading, ups>>

\* if (!isBackendHealthy) { setError(`Cannot connect ...`); return; }
UploadUnhealthy(i) ==
    /\ error' = Some(MsgNoBackend)
    /\ ups' = [ups EXCEPT ![i].pc = "done", ![i].probe = "failed", ![i].file = Null]
    /\ UNCHANGED <<uploading, calls>>

\* setUploading(true); setError(null); formData.append('file', file); fetch(upload)
UploadStart(i) ==
    /\ uploading' = TRUE
    /\ error' = Null
    /\ ups' = [ups EXCEPT ![i].pc = "upload", ![i].probe = "healthy", ![i].uploaded = TRUE]
    /\ calls' = [calls EXCEPT !.upload = @ + 1]

\* setResult(processedResult)
UploadSucceeded(out) ==
    /\ result' = Some(out.value)
    /\ UNCHANGED error

\* The catch block also discarding the stored result
UploadCatch_DropsResult(out) ==
    /\ error' = Some(CatchMessage(out))
    /\ result' = Null

\* catch (err) { setError(...) }
UploadCatch(out) ==
    /\ error' = Some(CatchMessage(out))
    /\ UNCHANGED result

\* No finally block: the busy indicator is never cleared
UploadFinally_Missing == UNCHANGED uploading

\* finally { setUploading(false) }
UploadFinally == uploading' = FALSE

\* The download catch also discarding the stored result
DownloadCatch_DropsResult ==
    /\ error' = Some(MsgDownloadFailed)
    /\ result' = Null
    /\ UNCHANGED <<file, uploading>>

\* catch (err) { setError('Failed to download file') }
DownloadCatch ==
    /\ error' = Some(MsgDownloadFailed)
    /\ UNCHANGED <<file, uploading, result>>

\* ---------------------------------------------------------------- actions
\* handleFileSelect, reached from handleDrop and handleFileInputChange
handleFileSelect(c) ==
    /\ IF EndsWith(c.name, ".xlsx") THEN AcceptFile(c) ELSE RejectFile(c)
    /\ last' = Ev("selectFile", 0, Some(c))
    /\ UNCHANGED <<uploading, ups, downs, mount, dom, calls>>

\* handleUpload up to its first await: the no-file return, or the health fetch
\* of testBackendConnection.  The closure keeps the file it was called with
\* until the invocation returns.
handleUpload ==
    /\ Len(ups) < MaxUploads
    /\ IF file = Null
       THEN UploadNoFile
       ELSE /\ ups' = Append(ups, [pc |-> "probe", file |-> file,
                                   probe |-> "pending", uploaded |-> FALSE])
            /\ calls' = [calls EXCEPT !.health = @ + 1]
            /\ UNCHANGED <<file, uploading, result, error>>
    /\ last' = Ev("requestUpload", IF file = Null THEN 0 ELSE Len(ups) + 1, file)
    /\ UNCHANGED <<downs, mount, dom>>

\* handleUpload from the health probe's completion to the upload fetch
handleUploadProbed(i, h) ==
    /\ i \in DOMAIN ups
    /\ ups[i].pc = "probe"
    /\ IF testBackendConnection(h) THEN UploadStart(i) ELSE UploadUnhealthy(i)
    /\ last' = Ev("uploadProbed", i, Some(h))
    /\ UNCHANGED <<file, result, downs, mount, dom>>

\* setUploading(false) at the end of the try block instead of in a finally
handleUploadResponded_NoFinally(i, resp) ==
    /\ i \in DOMAIN ups
    /\ ups[i].pc = "upload"
    /\ LET out == UploadTry(resp)
       IN  IF out.threw
           THEN UploadCatch(out) /\ UNCHANGED uploading
           ELSE UploadSucceeded(out) /\ UploadFinally
    /\ ups' = [ups EXCEPT ![i].pc = "done", ![i].file = Null]
    /\ last' = Ev("uploadResponded", i, <<resp, ups[i].file>>)
    /\ UNCHANGED <<file, downs, mount, dom, calls>>

\* handleUpload from the upload response to the end of the finally block.
\* The history keeps the response and the file the closure had sent.
handleUploadResponded(i, resp) ==
    /\ i \in DOMAIN ups
    /\ ups[i].pc = "upload"
    /\ LET out == UploadTry(resp)
       IN  /\ IF out.threw THEN UploadCatch(out) ELSE UploadSucceeded(out)
           /\ UploadFinally
    /\ ups' = [ups EXCEPT ![i].pc = "done", ![i].file = Null]
    /\ last' = Ev("uploadResponded", i, <<resp, ups[i].file>>)
    /\ UNCHANGED <<file, downs, mount, dom, calls>>

\* result?.download_url is truthy
HasDownloadUrl == result # Null /\ result[1].download_url # ""

\* handleDownload up to its await: if (!result?.download_url) return; fetch(url)
handleDownload ==
    /\ Len(downs) < MaxDownloads
    /\ IF ~HasDownloadUrl
       THEN UNCHANGED <<downs, calls>>
       ELSE /\ downs' = Append(downs, [pc |-> "fetch", url |-> result[1].download_url,
                                       filename |-> result[1].stats.filename])
            /\ calls' = [calls EXCEPT !.download = @ + 1]
    /\ last' = Ev("requestDownload", IF HasDownloadUrl THEN Len(downs) + 1 ELSE 0, result)
    /\ UNCHANGED <<file, uploading, result, error, ups, mount, dom>>

\* The object URLs not yet revoked and the anchors still attached to the body
\* when the try block of handleDownload is left on outcome o: createObjectURL,
\* appendChild, click, revokeObjectURL, removeChild, in that order, with no
\* finally block
DownloadSave(o) ==
    LET created  == [dom EXCEPT !.urls = @ + 1]
        appended == [created EXCEPT !.anchors = @ + 1]
        revoked  == [appended EXCEPT !.urls = @ - 1]
        removed  == [revoked EXCEPT !.anchors = @ - 1]
    IN  CASE o \in {"reject", "notok", "blobfail"} -> dom
          [] o = "throwAtAppend" -> created
          [] o = "throwAtClick" -> appended
          [] o = "ok" -> removed

\* handleDownload from the fetch's completion to its end
handleDownloadResponded(j, o) ==
    /\ j \in DOMAIN downs
    /\ downs[j].pc = "fetch"
    /\ IF o = "ok" THEN UNCHANGED <<file, uploading, result, error>> ELSE DownloadCatch
    /\ dom' = DownloadSave(o)
    /\ downs' = [downs EXCEPT ![j].pc = "done"]
    /\ last' = Ev("downloadResponded", j, Some(o))
    /\ UNCHANGED <<ups, mount, calls>>

\* setError(null) left out
handleReset_KeepsError ==
    /\ file' = Null
    /\ result' = Null
    /\ UNCHANGED error
    /\ last' = Ev("reset", 0, Null)
    /\ UNCHANGED <<uploading, ups, downs, mount, dom, calls>>

\* handleReset
handleReset ==
    /\ file' = Null
    /\ result' = Null
    /\ error' = Null
    /\ last' = Ev("reset", 0, Null)
    /\ UNCHANGED <<uploading, ups, downs, mount, dom, calls>>

\* The mount probe showing the connectivity error instead of logging it
mountProbed_ShowsError(h) ==
    /\ mount = "probe"
    /\ mount' = "done"
    /\ error' = IF testBackendConnection(h) THEN error ELSE Some(MsgNoBackend)
    /\ last' = Ev("mountProbed", 0, Some(h))
    /\ UNCHANGED <<file, uploading, result, ups, downs, calls, dom>>

\* The useEffect probe issued on mount: its outcome is only logged
mountProbed(h) ==
    /\ mount = "probe"
    /\ mount' = "done"
    /\ last' = Ev("mountProbed", 0, Some(h))
    /\ UNCHANGED <<file, uploading, result, error, ups, downs, calls, dom>>

Next ==
    \/ \E c \in Candidates : handleFileSelect(c)
    \/ handleUpload
    \/ \E i \in 1..MaxUploads, h \in HealthOutcomes : handleUploadProbed(i, h)
    \/ \E i \in 1..MaxUploads, resp \in UploadResponses : handleUploadResponded(i, resp)
    \/ handleDownload
    \/ \E j \in 1..MaxDownloads, o \in DownloadOutcomes : handleDownloadResponded(j, o)
    \/ handleReset
    \/ \E h \in HealthOutcomes : mountProbed(h)

\* Every handler may be invoked in every state
Spec == Init /\ [][Next]_vars

\* Every network call eventually completes or fails: each awaited fetch of an
\* invocation is eventually answered, and the handler then resumes
NetworkAnswers ==
    /\ \A i \in 1..MaxLiveUploads :
          /\ WF_vars(\E h \in HealthOutcomes : handleUploadProbed(i, h))
          /\ WF_vars(\E resp \in UploadResponses : handleUploadResponded(i, resp))
    /\ \A j \in 1..MaxDownloads :
          WF_vars(\E o \in DownloadOutcomes : handleDownloadResponded(j, o))
    /\ WF_vars(\E h \in HealthOutcomes : mountProbed(h))

NextLive ==
    \/ \E c \in Candidates : handleFileSelect(c)
    \/ (Len(ups) < MaxLiveUploads /\ handleUpload)
    \/ \E i \in 1..MaxLiveUploads, h \in HealthOutcomes : handleUploadProbed(i, h)
    \/ \E i \in 1..MaxLiveUploads, resp \in UploadResponses : handleUploadResponded(i, resp)
    \/ handleDownload
    \/ \E j \in 1..MaxDownloads, o \in DownloadOutcomes : handleDownloadResponded(j, o)
    \/ handleReset
    \/ \E h \in HealthOutcomes : mountProbed(h)

\* Every handler may be invoked in every state, and the network answers
SpecLive == Init /\ [][NextLive]_vars /\ NetworkAnswers

\* ------------------------------------------------- the handlers behind the UI
\* disabled={!file} only: the button stays enabled while uploading
clickProcessFile_NoBusyGuard ==
    /\ result = Null
    /\ file # Null
    /\ handleUpload

\* The "Process File" button: rendered when !result, disabled={!file || uploading}
clickProcessFile ==
    /\ result = Null
    /\ file # Null
    /\ ~uploading
    /\ handleUpload

\* A click on the "Process File" button while it is disabled: no click event
\* is dispatched, so no handler runs
clickProcessFileDisabled ==
    /\ result = Null
    /\ (file = Null \/ uploading)
    /\ last' = Ev("clickDisabled", 0, file)
    /\ UNCHANGED <<file, uploading, result, error, ups, downs, mount, dom, calls>>

\* The "Clear" button: rendered when !result, disabled={uploading}
clickClear ==
    /\ result = Null
    /\ ~uploading
    /\ handleReset

\* The "Process Another File" button: rendered when result
clickProcessAnother ==
    /\ result # Null
    /\ handleReset

\* The "Download Results" button: rendered when result
clickDownload ==
    /\ result # Null
    /\ handleDownload

NextUI ==
    \/ \E c \in Candidates : handleFileSelect(c)
    \/ clickProcessFile
    \/ clickProcessFileDisabled
    \/ \E i \in 1..MaxUploads, h \in HealthOutcomes : handleUploadProbed(i, h)
    \/ \E i \in 1..MaxUploads, resp \in UploadResponses : handleUploadResponded(i, resp)
    \/ clickClear
    \/ clickProcessAnother
    \/ clickDownload
    \/ \E j \in 1..MaxDownloads, o \in DownloadOutcomes : handleDownloadResponded(j, o)
    \/ \E h \in HealthOutcomes : mountProbed(h)

\* Handlers are invoked only through the controls the component renders enabled
SpecUI == Init /\ [][NextUI]_vars

\* A control that runs handleReset is rendered and enabled: "Clear" when
\* !result and !uploading, "Process Another File" when result
ResetEnabled == IF result = Null THEN ~uploading ELSE TRUE

\* ------------------------------------------------------------------ phases
\* What the component shows: the spinner while uploading, the results section
\* when result is set, the error banner when error is set.  The component
\* keeps no phase cell, and the three are rendered independently.
Phases ==
    (IF uploading THEN {"Uploading"} ELSE {})
    \cup (IF result # Null THEN {"Succeeded"} ELSE {})
    \cup (IF error # Null THEN {"Failed"} ELSE {})
    \cup (IF ~uploading /\ result = Null /\ error = Null THEN {"Idle"} ELSE {})

ValidNames == {"a.xlsx", "b.xlsx"}
InvalidNames == {"a.csv", "a.xlsx.bak", "A.XLSX"}

\* The steps of the history variable, by what they were given
LastSelect(names) == last.op = "selectFile" /\ last.arg[1].name \in names
LastProbeFailed ==
    /\ last.op = "uploadProbed"
    /\ (last.arg[1].kind # "json" \/ last.arg[1].status # "healthy")
LastUploadHttp(ok) ==
    /\ last.op = "uploadResponded"
    /\ last.arg[1].kind = "http"
    /\ last.arg[1].parseable
    /\ last.arg[1].ok = ok
LastDownloadFailed == last.op = "downloadResponded" /\ last.arg[1] # "ok"

\* ------------------------------------------------------------------ claims

\* C1 as stated: result is set iff the phase is Succeeded, errorMessage is set
\* iff the phase is Failed, and result and errorMessage are never both set.
C1_Original ==
    /\ (result # Null) <=> (Phases = {"Succeeded"})
    /\ (error # Null) <=> (Phases = {"Failed"})
    /\ ~(result # Null /\ error # Null)

\* C1 amended: result and errorMessage can be set together, but no step sets
\* both: a step that stores a new result is the completion of an upload and
\* leaves errorMessage as it was, and a step that sets a new errorMessage
\* leaves result as it was.
C1_NoStepPopulatesBoth ==
    /\ (result # Null /\ result # last.pre.result)
           => (last.op = "uploadResponded" /\ error = last.pre.error)
    /\ (error # Null /\ error # last.pre.error) => result = last.pre.result

C1_Witness == result # Null /\ error # Null /\ error # last.pre.error

\* C2: in every requestUpload invocation the upload request is issued only
\* after a healthy probe; a probe that is unhealthy, unparseable or rejected
\* ends the invocation with the connectivity error shown (phase Failed) and
\* without any call to the upload endpoint.
C2_ProbeGatesUpload ==
    /\ \A i \in DOMAIN ups :
          /\ ups[i].uploaded => ups[i].probe = "healthy"
          /\ ups[i].probe = "failed" => (~ups[i].uploaded /\ ups[i].pc = "done")
    /\ calls.upload = Cardinality({i \in DOMAIN ups : ups[i].probe = "healthy"})
    /\ LastProbeFailed =>
          /\ error = Some(MsgNoBackend)
          /\ "Failed" \in Phases
          /\ calls.upload = last.pre.calls.upload
          /\ ups[last.id].pc = "done"
          /\ ~ups[last.id].uploaded

C2_Witness ==
    /\ LastProbeFailed
    /\ last.arg[1].status = "degraded"
    /\ error = Some(MsgNoBackend)
    /\ calls.upload = 0

\* C3 as stated: the busy indicator is true in exactly the states between the
\* start and the end of a requestUpload invocation.
C3_Original ==
    uploading <=> (\E i \in DOMAIN ups : ups[i].pc \in {"probe", "upload"})

\* C3 amended: the busy indicator is false during the health probe, is set
\* when an invocation issues its upload request and is cleared when an upload
\* request completes, on success, failure or exception; it is true only while
\* some invocation is between issuing its upload request and its completion.
C3_BusyOnlyWhileUploading ==
    /\ uploading => (\E i \in DOMAIN ups : ups[i].pc = "upload")
    /\ last.op = "uploadResponded" => ~uploading
    /\ (last.op = "uploadProbed" /\ ~LastProbeFailed) => uploading
    /\ last.op = "requestUpload" => uploading = last.pre.uploading

C3_Witness ==
    /\ last.op = "uploadResponded"
    /\ last.arg[1].kind = "reject"
    /\ last.pre.uploading
    /\ ~uploading

\* C4: requestUpload with no selected file issues no network call, shows the
\* 'no file selected' error (phase Failed) and leaves selectedFile, result and
\* the busy indicator unchanged.
C4_NoFileNoNetwork ==
    (last.op = "requestUpload" /\ last.pre.file = Null) =>
        /\ error = Some(MsgNoFile)
        /\ "Failed" \in Phases
        /\ calls = last.pre.calls
        /\ \A i \in DOMAIN ups : ups[i].pc # "done" => ups[i].file # Null
        /\ file = Null
        /\ result = last.pre.result
        /\ uploading = last.pre.uploading

C4_Witness ==
    /\ last.op = "requestUpload"
    /\ last.pre.file = Null
    /\ error = Some(MsgNoFile)
    /\ calls.health = 1

\* C5 as stated: for every candidate whose name does not end in .xlsx,
\* selectFile leaves phase Failed and selectedFile = none.
C5_Original ==
    LastSelect(InvalidNames) => ("Failed" \in Phases /\ file = Null)

\* C5 amended: for every candidate whose name does not end in .xlsx,
\* selectFile shows the validation error (phase Failed) and never stores the
\* candidate; selectedFile, result and the busy indicator stay as they were,
\* so a previously accepted file stays armed.
C5_RejectKeepsState ==
    LastSelect(InvalidNames) =>
        /\ error = Some(MsgInvalidFile)
        /\ "Failed" \in Phases
        /\ file # last.arg
        /\ file = last.pre.file
        /\ result = last.pre.result
        /\ uploading = last.pre.uploading

C5_Witness ==
    /\ LastSelect(InvalidNames)
    /\ last.pre.file # Null
    /\ last.pre.result # Null
    /\ file = last.pre.file
    /\ error = Some(MsgInvalidFile)

\* C6: for every candidate whose name ends in .xlsx, selectFile stores the
\* candidate and clears any prior result and errorMessage.
C6_AcceptStoresAndClears ==
    LastSelect(ValidNames) =>
        /\ file = last.arg
        /\ result = Null
        /\ error = Null

C6_Witness ==
    /\ LastSelect(ValidNames)
    /\ last.pre.result # Null
    /\ last.pre.error # Null
    /\ last.pre.file # last.arg
    /\ file = last.arg
    /\ result = Null

\* C7: on a success upload response requestUpload ends with phase Succeeded
\* and a stored result equal to the payload, except that a non-empty download
\* locator is the base location followed by the returned path, once; storing
\* it issues no network call.
C7_SuccessStoresQualifiedResult ==
    LastUploadHttp(TRUE) =>
        LET d == last.arg[1].data
        IN  /\ result # Null
            /\ "Succeeded" \in Phases
            /\ ~uploading
            /\ result[1].success = d.success
            /\ result[1].message = d.message
            /\ result[1].stats = d.stats
            /\ result[1].download_url =
                   (IF d.download_url = "" THEN "" ELSE API_BASE_URL \o d.download_url)
            /\ calls = last.pre.calls

C7_Witness ==
    /\ LastUploadHttp(TRUE)
    /\ last.arg[1].data.download_url = "/files/out.csv"
    /\ result # Null
    /\ result[1].stats.total_records = 5
    /\ result[1].download_url =
           "https://project2backenddeploy-production.up.railway.app/files/out.csv"

\* C8 as stated: on a non-success upload response requestUpload ends with
\* phase Failed and no result, and errorMessage is the payload's error field,
\* else its message field, else the message derived from the status code.
C8_Original ==
    LastUploadHttp(FALSE) =>
        LET d == last.arg[1].data
        IN  /\ "Failed" \in Phases
            /\ result = Null
            /\ error = Some(IF Truthy(d, "error") THEN d.error
                            ELSE IF Truthy(d, "message") THEN d.message
                            ELSE "Upload failed with status "
                                     \o NumToString(last.arg[1].status))

\* C9 as stated: an upload response with status 500 and an empty body ends
\* with phase Failed and the fallback message derived from the status code.
C9_Original ==
    (/\ last.op = "uploadResponded"
     /\ last.arg[1].kind = "http"
     /\ last.arg[1].status = 500
     /\ ~last.arg[1].parseable) =>
        /\ "Failed" \in Phases
        /\ error = Some("Upload failed with status 500")

\* C10: a requestDownload whose fetch fails, made after a result was stored,
\* leaves phase Succeeded, result and selectedFile unchanged and sets the
\* download error.
C10_FailedDownloadKeepsResult ==
    (LastDownloadFailed /\ last.pre.result # Null) =>
        /\ "Succeeded" \in Phases
        /\ result = last.pre.result
        /\ file = last.pre.file
        /\ uploading = last.pre.uploading
        /\ error = Some(MsgDownloadFailed)

C10_Witness ==
    /\ LastDownloadFailed
    /\ last.pre.result # Null
    /\ last.pre.error = Null
    /\ result = last.pre.result
    /\ error = Some(MsgDownloadFailed)

\* C11 as stated: reset is available in every phase, and the state right
\* after reset is exactly phase Idle with no file, no result and no error.
C11_Original ==
    /\ ResetEnabled
    /\ last.op = "reset" =>
          /\ Phases = {"Idle"}
          /\ file = Null
          /\ result = Null
          /\ error = Null

\* C11 amended: reset clears selectedFile, result and errorMessage and leaves
\* the busy indicator as it was, so the state after it is Idle exactly when
\* the busy indicator was false; it is never run from a state where the busy
\* indicator is true and no result is shown, where its control is disabled.
C11_ResetClearsButBusy ==
    last.op = "reset" =>
        /\ file = Null
        /\ result = Null
        /\ error = Null
        /\ uploading = last.pre.uploading
        /\ (Phases = {"Idle"}) <=> ~last.pre.uploading
        /\ (last.pre.result # Null \/ ~last.pre.uploading)

C11_Witness ==
    /\ last.op = "reset"
    /\ last.pre.uploading
    /\ last.pre.error # Null
    /\ uploading
    /\ file = Null
    /\ error = Null

\* C12: a requestUpload triggered while the busy indicator is true is
\* ignored: no handleUpload invocation starts from a busy state, and the
\* trigger issues no health probe, no upload request and changes no session
\* field.
C12_BusyTriggerIgnored ==
    /\ last.op = "requestUpload" => ~last.pre.uploading
    /\ (last.op = "clickDisabled" /\ last.pre.uploading) =>
          /\ calls = last.pre.calls
          /\ calls.health = Len(ups) + 1
          /\ file = last.pre.file
          /\ result = last.pre.result
          /\ error = last.pre.error
          /\ uploading = last.pre.uploading

C12_Witness ==
    /\ last.op = "clickDisabled"
    /\ last.pre.uploading
    /\ file # Null
    /\ \E i \in DOMAIN ups : ups[i].pc = "upload"

\* C13: when every network call is eventually answered, every requestUpload
\* invocation that has set the busy indicator eventually reaches its end,
\* where it clears the indicator, on success, failure and exception alike;
\* it does so once, because a finished invocation never runs again; and it
\* ends with result set on success and errorMessage set otherwise.
C13_BusyClearedOnce ==
    /\ [](last.op = "uploadResponded" =>
             /\ ~uploading
             /\ ups[last.id].pc = "done"
             /\ IF LastUploadHttp(TRUE) THEN result # Null ELSE error # Null)
    /\ [][\A i \in DOMAIN ups : ups[i].pc = "done" => ups'[i].pc = "done"]_vars
    /\ \A i \in 1..MaxLiveUploads :
          (i \in DOMAIN ups /\ ups[i].pc = "upload")
              ~> (i \in DOMAIN ups /\ ups[i].pc = "done")

C13_Witness ==
    /\ last.op = "uploadResponded"
    /\ last.arg[1].kind = "http"
    /\ ~last.arg[1].parseable
    /\ last.pre.uploading
    /\ ~uploading
    /\ error = Some("Unexpected end of JSON input")

\* C14: nothing is retried automatically.  Besides the mount probe, health
\* probes are one per requestUpload invocation that passed the file check,
\* upload requests are at most one per such invocation, fetches are one per
\* requestDownload that had a locator, and a step that handles an answer
\* issues no request except the one upload request after a healthy probe.
C14_NoAutomaticRetry ==
    /\ calls.health = Len(ups) + 1
    /\ calls.upload <= Len(ups)
    /\ calls.download = Len(downs)
    /\ last.op \in {"uploadResponded", "downloadResponded", "mountProbed"}
          => calls = last.pre.calls
    /\ last.op = "uploadProbed" =>
          /\ calls.health = last.pre.calls.health
          /\ calls.download = last.pre.calls.download
          /\ calls.upload = last.pre.calls.upload + (IF LastProbeFailed THEN 0 ELSE 1)

C14_Witness ==
    /\ last.op = "uploadResponded"
    /\ last.arg[1].kind = "reject"
    /\ error = Some("Failed to fetch")
    /\ calls.upload = 1
    /\ \A i \in DOMAIN ups : ups[i].pc = "done"

\* C15 as stated: every object URL and anchor created by requestDownload is
\* released on every exit path after its creation, so once the handler has
\* returned no object URL is left unrevoked and no anchor is left attached.
C15_Original ==
    /\ dom.urls = 0
    /\ dom.anchors = 0

\* C16: the probe issued on mount, whether it is healthy, unhealthy,
\* unparseable or rejected, changes no session field: selectedFile, result,
\* errorMessage and the busy indicator are as they were before its answer.
C16_MountProbeSilent ==
    last.op = "mountProbed" =>
        /\ file = last.pre.file
        /\ result = last.pre.result
        /\ error = last.pre.error
        /\ uploading = last.pre.uploading
        /\ Len(ups) + 1 = calls.health

C16_Witness ==
    /\ last.op = "mountProbed"
    /\ last.arg[1].kind = "reject"
    /\ file # Null
    /\ error = Null
    /\ "Failed" \notin Phases

\* C17 as stated: under the interleavings the UI permits, at most one
\* requestUpload invocation is in progress at any time, its health-probe step
\* included, so two upload requests are never in flight together.
C17_Original ==
    /\ Cardinality({i \in DOMAIN ups : ups[i].pc \in {"probe", "upload"}}) <= 1
    /\ Cardinality({i \in DOMAIN ups : ups[i].pc = "upload"}) <= 1

\* C18 as stated: whenever result is populated, selectedFile is present and
\* is the file whose upload produced that result.
C18_Original ==
    /\ result # Null => file # Null
    /\ LastUploadHttp(TRUE) => file = last.arg[2]

\* C19 as stated: once reset has run and until the next user action, the
\* completion of a requestUpload step that was in progress leaves result and
\* errorMessage empty.  Only reset empties selectedFile, so a step of an
\* invocation that starts with all three empty runs in the state reset left.
C19_Original ==
    (/\ last.op \in {"uploadProbed", "uploadResponded"}
     /\ last.pre.file = Null
     /\ last.pre.result = Null
     /\ last.pre.error = Null) =>
        /\ result = Null
        /\ error = Null

====
